---- MODULE Spec2Model ----
(***************************************************************************)
(* Model of app.py: the date resolver best_date (extractors, header        *)
(* fallback, confidence-then-recency selection, agreement boost), the date *)
(* parser _safe_parse_date, the search dataforseo_search and the staleness *)
(* comparison of process().  Strings that are searched or cut (netlocs,    *)
(* URLs) are sequences of characters.                                      *)
(*                                                                         *)
(* Representation.  Confidences are hundredths (0.95 is 95); the float     *)
(* comparisons of the code (c >= max_conf - 0.05, c >= 0.6, conf < 1.0)    *)
(* agree with the integer ones on every value of the confidence table.     *)
(* Time is counted in ticks finer than a day, so that timedelta.days,      *)
(* which floors, can be told from a distance in time.  Optional values are *)
(* sequences: <<>> is None and <<x>> is x.                                 *)
(***************************************************************************)
EXTENDS Integers, Sequences, FiniteSets, TLC

\* best_date: where it stands, its locals, whether the extractor just called
\* raised, the header value it read and what _safe_parse_date made of it, the
\* candidate it picked and what it returned.
VARIABLES pc, domain, cands, raised, lmRaw, parsed, winner, result

\* process(): where it stands on one row, days_threshold, the target's date,
\* the search results, the competitors' dates so far (comp{i}_date), the two
\* running maxima and the verdict columns of the row.
VARIABLES ppc, days_threshold, c_dt, comps, dates, newest_any, newest_editorial, row

\* dataforseo_search: where it stands, the items of the response, how many of
\* them the loop has passed, its list out, whether the except clause was
\* entered, and what it returned.
VARIABLES spc, items, pos, out, caught, hits

bdVars == <<pc, domain, cands, raised, lmRaw, parsed, winner, result>>
procVars == <<ppc, days_threshold, c_dt, comps, dates, newest_any, newest_editorial, row>>
searchVars == <<spc, items, pos, out, caught, hits>>
vars == <<bdVars, procVars, searchVars>>

\* ---------------------------------------------------------------- bounds

\* Number of items in one response of the search API.
MaxItems == 4
\* Total number of candidates one page may yield.
MaxCands == 2
\* Timestamps lie in 0..MaxTick ticks, TicksPerDay ticks to the day.
MaxTick == 5
TicksPerDay == 2
\* days_threshold lies in 1..MaxThreshold (the slider starts at 1).
MaxThreshold == 2

Times == 0..MaxTick

None == <<>>
Some(x) == <<x>>

SeqsUpTo(S, n) == UNION {[1..k -> S] : k \in 0..n}

\* ---------------------------------------------------------------- dates

\* A datetime: its wall clock reading and its tzinfo (None: naive; else the
\* offset from UTC, in ticks).
DateTime(wall, tz) == [wall |-> wall, tz |-> tz]
\* The instant of an aware datetime, as ticks in UTC.
Instant(d) == d.wall - d.tz[1]

\* The strings handed to _safe_parse_date, by what dateutil makes of them: a
\* naive wall clock, or one with a UTC offset of a tick either way.
RawDates ==
    {[kind |-> k, wall |-> 0, off |-> 0] : k \in {"none", "empty", "raises", "nothing"}}
    \cup {[kind |-> "naive", wall |-> t, off |-> 0] : t \in Times}
    \cup {[kind |-> "aware", wall |-> t, off |-> o] : t \in Times, o \in {-1, 0, 1}}

\* dateparser.parse(str(v), fuzzy=True): a datetime, None, or an exception.
DateutilParse(v) ==
    CASE v.kind = "naive" -> [exc |-> FALSE, dt |-> Some(DateTime(v.wall, None))]
      [] v.kind = "aware" -> [exc |-> FALSE, dt |-> Some(DateTime(v.wall, Some(v.off)))]
      [] v.kind = "raises" -> [exc |-> TRUE, dt |-> None]
      [] OTHER -> [exc |-> FALSE, dt |-> None]

\* dt.replace(tzinfo=timezone.utc): the same wall clock, now read as UTC.
ReplaceTzUtc(d) == DateTime(d.wall, Some(0))
\* dt.astimezone(timezone.utc): the same instant, wall clock moved to UTC.
AsTimezoneUtc(d) == DateTime(d.wall - d.tz[1], Some(0))

\* What a call does: it returns a value, or an exception leaves it.
Returns(x) == [raised |-> FALSE, value |-> x]
Raises == [raised |-> TRUE, value |-> None]

\* Faulty variant: the parse result is returned in its own timezone (no astimezone).
SafeParseDate_NoConvert(v) ==
    IF v.kind \in {"none", "empty"} THEN Returns(None)
    ELSE LET p == DateutilParse(v) IN
         IF p.exc THEN Returns(None)
         ELSE IF p.dt = None THEN Returns(None)
         ELSE LET d == p.dt[1]
              IN Returns(Some(IF d.tz = None THEN ReplaceTzUtc(d) ELSE d))

\* Lines 21-30; the except clause turns every exception of the body into None.
SafeParseDate(v) ==
    IF v.kind \in {"none", "empty"} THEN Returns(None)
    ELSE LET p == DateutilParse(v) IN
         IF p.exc THEN Returns(None)
         ELSE IF p.dt = None THEN Returns(None)
         ELSE LET d == p.dt[1]
                  a == IF d.tz = None THEN ReplaceTzUtc(d) ELSE d
              IN Returns(Some(AsTimezoneUtc(a)))

\* A candidate (label, dt, conf); dt is an aware UTC datetime, kept as its instant.
Cand(label, dt, conf) == [label |-> label, dt |-> dt, conf |-> conf]

\* Line 35: the confidence of the Last-Modified header, in hundredths.
HeaderConf == 30

\* Faulty variant: the header value is taken as a date without the "if dt" test.
LastModifiedHeader_NoCheck(v) ==
    IF v.kind = "none" THEN None
    ELSE Some(Cand("header:last-modified", v.wall, HeaderConf))

\* Faulty variant: the header is trusted like a generic meta date.
LastModifiedHeader_Trusted(v) ==
    LET dt == SafeParseDate(v).value IN
    IF dt # None THEN Some(Cand("header:last-modified", Instant(dt[1]), 60)) ELSE None

\* Lines 32-35.
LastModifiedHeader(v) ==
    LET dt == SafeParseDate(v).value IN
    IF dt # None THEN Some(Cand("header:last-modified", Instant(dt[1]), HeaderConf)) ELSE None

\* ---------------------------------------------------------------- domains

\* Strings are sequences of characters.
CnetCom == <<"c", "n", "e", "t", ".", "c", "o", "m">>
WwwDot == <<"w", "w", "w", ".">>

\* The netloc of the URLs best_date is called with.
Netlocs ==
    { WwwDot \o CnetCom,
      CnetCom,
      <<"W", "W", "W", ".", "C", "N", "E", "T", ".", "c", "o", "m">>,
      <<"n", "e", "w", "s", ".">> \o CnetCom,
      <<"n", "o", "t">> \o CnetCom,
      WwwDot \o <<"x", ".", "c", "o", "m">>,
      <<>> }

LowerChar(ch) ==
    CASE ch = "W" -> "w" [] ch = "C" -> "c" [] ch = "N" -> "n"
      [] ch = "E" -> "e" [] ch = "T" -> "t" [] OTHER -> ch

Lower(s) == [i \in 1..Len(s) |-> LowerChar(s[i])]

StartsWith(s, pre) == Len(s) >= Len(pre) /\ SubSeq(s, 1, Len(pre)) = pre
EndsWith(s, suf) == Len(s) >= Len(suf) /\ SubSeq(s, Len(s) - Len(suf) + 1, Len(s)) = suf

\* Lines 197-201: the lower-cased netloc without a leading "www.".
DomainOf(netloc) ==
    LET d == Lower(netloc) IN
    IF StartsWith(d, WwwDot) THEN SubSeq(d, 5, Len(d)) ELSE d

\* Line 206: the gate of the site-specific adapter.
AdapterGate(d) == EndsWith(d, CnetCom)

\* ---------------------------------------------------------------- extractors

\* Faulty variant: 'published' is tested before 'updated'.
AdapterConf_PublishedFirst(selUpdated, textUpdated, selPublished, textPublished) ==
    IF selPublished \/ textPublished THEN 85
    ELSE IF selUpdated \/ textUpdated THEN 95
    ELSE 80

\* _cnet_adapter, lines 162-167: the confidence of a selector match.
AdapterConf(selUpdated, textUpdated, selPublished, textPublished) ==
    IF selUpdated \/ textUpdated THEN 95
    ELSE IF selPublished \/ textPublished THEN 85
    ELSE 80

\* _cnet_adapter, lines 178-179: the confidence of a date found in a text block.
CnetTextConf(isUpdated) == IF isUpdated THEN 85 ELSE 75

\* Lines 133-149: one selector of each kind, those with "updated" or "modified"
\* in them, those with "published", and the broader ones, which come last.
AdapterSelectors ==
    { [label |-> "cnet:.c-globalUpdatedDate time[datetime]",
       updated |-> TRUE, published |-> FALSE, broader |-> FALSE],
      [label |-> "cnet:.c-globalPublishedDate time[datetime]",
       updated |-> FALSE, published |-> TRUE, broader |-> FALSE],
      [label |-> "cnet:.byline time[datetime]",
       updated |-> FALSE, published |-> FALSE, broader |-> TRUE] }

\* Lines 151-169: a selector match, with "updated" or "published" in the text
\* of its parent or not.
AdapterSelCands ==
    {Cand(sel.label, t, AdapterConf(sel.updated, textUpdated, sel.published, textPublished)) :
        sel \in AdapterSelectors, t \in Times,
        textUpdated \in BOOLEAN, textPublished \in BOOLEAN}

\* Lines 172-180.
AdapterTextCands == {Cand("cnet:text", t, CnetTextConf(u)) : t \in Times, u \in BOOLEAN}

\* The place of a candidate in the adapter's list: the specific selectors, the
\* broader ones, then the text blocks.
AdapterRank(c) ==
    IF c.label = "cnet:text" THEN 2
    ELSE IF \E sel \in AdapterSelectors : sel.label = c.label /\ sel.broader THEN 1
    ELSE 0

AdapterOutputs(n) ==
    {s \in SeqsUpTo(AdapterSelCands \cup AdapterTextCands, n) :
        \A i \in 1..Len(s), j \in 1..Len(s) :
            i < j => AdapterRank(s[i]) <= AdapterRank(s[j])}

JsonldConf(key) ==
    CASE key = "dateModified" -> 95
      [] key = "datePublished" -> 75
      [] OTHER -> 70

JsonldCands ==
    {Cand("jsonld", t, JsonldConf(k)) :
        t \in Times, k \in {"dateModified", "datePublished", "dateCreated", "uploadDate"}}

JsonldOutputs(n) == SeqsUpTo(JsonldCands, n)

\* _extract_meta: the selectors in the order add() is called with them.
MetaSelectors ==
    << [sel |-> "article:modified_time", conf |-> 95],
       [sel |-> "itemprop:dateModified", conf |-> 95],
       [sel |-> "og:updated_time", conf |-> 90],
       [sel |-> "article:published_time", conf |-> 75],
       [sel |-> "itemprop:datePublished", conf |-> 75],
       [sel |-> "parsely-pub-date", conf |-> 75],
       [sel |-> "date", conf |-> 60] >>

MetaCands == {Cand("meta", t, MetaSelectors[i].conf) : t \in Times, i \in DOMAIN MetaSelectors}

\* The matches of an earlier selector precede those of a later one.
MetaOutputs(n) ==
    {s \in SeqsUpTo(MetaCands, n) :
        \A i \in 1..Len(s), j \in 1..Len(s) : i < j => s[i].conf >= s[j].conf}

TimeConf(nearUpdated) == IF nearUpdated THEN 90 ELSE 60

TimeCands == {Cand("time", t, TimeConf(u)) : t \in Times, u \in BOOLEAN}

TimeOutputs(n) == SeqsUpTo(TimeCands, n)

TextConf(updatedLabel) == IF updatedLabel THEN 50 ELSE 40

TextCands == {Cand("text", t, TextConf(u)) : t \in Times, u \in BOOLEAN}

TextOutputs(n) == SeqsUpTo(TextCands, n)

\* ---------------------------------------------------------------- selection

\* Line 232: the slack below the maximal confidence, in hundredths.
BandSlack == 5
\* Line 237: the agreement window, in days, and the least confidence counted.
AgreeDays == 2
AgreeMinConf == 60
\* Lines 238-239: the boost and its cap, in hundredths.
BoostStep == 10
ConfCap == 100

Abs(x) == IF x < 0 THEN -x ELSE x
Min(a, b) == IF a < b THEN a ELSE b

\* timedelta.days of a difference of instants: whole days, rounded down.
Days(delta) == delta \div TicksPerDay

MaxConf(cs) == CHOOSE m \in {cs[i].conf : i \in DOMAIN cs} : \A i \in DOMAIN cs : cs[i].conf <= m

\* Faulty variant: every candidate is eligible, recency alone decides.
InBand_Any(c, maxConf) == c.conf >= 0

\* Line 232.
InBand(c, maxConf) == c.conf >= maxConf - BandSlack

Top(cs) == SelectSeq(cs, LAMBDA c : InBand(c, MaxConf(cs)))

\* list.sort(key=dt, reverse=True) is stable: equal timestamps keep their order.
RECURSIVE InsertDesc(_, _)
InsertDesc(x, s) ==
    IF s = <<>> THEN <<x>>
    ELSE IF Head(s).dt >= x.dt THEN <<Head(s)>> \o InsertDesc(x, Tail(s))
    ELSE <<x>> \o s

RECURSIVE SortDesc(_)
SortDesc(s) ==
    IF s = <<>> THEN <<>>
    ELSE InsertDesc(s[Len(s)], SortDesc(SubSeq(s, 1, Len(s) - 1)))

\* Faulty variant: the band is not sorted, its first member wins.
Winner_Unsorted(cs) == Head(Top(cs))

\* Lines 231-234: top[0] after the sort.
Winner(cs) == Head(SortDesc(Top(cs)))

InWindow(c, dt) == Abs(Days(c.dt - dt)) <= AgreeDays

\* Line 237.
Agree(cs, dt) == SelectSeq(cs, LAMBDA c : InWindow(c, dt) /\ c.conf >= AgreeMinConf)

\* Faulty variant: the boost without its cap.
Boost_NoCap(conf, nAgree) ==
    IF nAgree >= 2 /\ conf < ConfCap THEN conf + BoostStep ELSE conf

\* Lines 238-239.
Boost(conf, nAgree) ==
    IF nAgree >= 2 /\ conf < ConfCap THEN Min(ConfCap, conf + BoostStep) ELSE conf

Resolution(dt, conf) == [dt |-> dt, conf |-> conf]

\* Lines 227-241.
Resolve(cs) ==
    IF cs = <<>> THEN Resolution(None, 0)
    ELSE LET w == Winner(cs) IN
         Resolution(Some(w.dt), Boost(w.conf, Len(Agree(cs, w.dt))))

\* ---------------------------------------------------------------- best_date

\* dataforseo_search has not been called.
SearchIdle ==
    /\ spc = "idle"
    /\ items = <<>>
    /\ pos = 0
    /\ out = <<>>
    /\ caught = FALSE
    /\ hits = None

\* process() has not been called.
ProcessIdle ==
    /\ ppc = "idle"
    /\ days_threshold = 0
    /\ c_dt = None
    /\ comps = <<>>
    /\ dates = <<>>
    /\ newest_any = None
    /\ newest_editorial = None
    /\ row = None

\* The locals of best_date before its first statement.
BestDateEntry ==
    /\ pc = "fetch"
    /\ domain = <<>>
    /\ cands = <<>>
    /\ raised = FALSE
    /\ lmRaw = None
    /\ parsed = Returns(None)
    /\ winner = None
    /\ result = None

\* Lines 187-192: the page is fetched, or best_date returns (None, 0.0).
Fetch ==
    /\ pc = "fetch"
    /\ \/ /\ pc' = "domain"
          /\ UNCHANGED result
       \/ /\ pc' = "done"
          /\ result' = Some(Resolution(None, 0))
    /\ UNCHANGED <<domain, cands, raised, lmRaw, parsed, winner>>
    /\ UNCHANGED procVars
    /\ UNCHANGED searchVars

\* Lines 196-201; urlparse raising leaves the empty domain.
ParseDomain ==
    /\ pc = "domain"
    /\ \/ \E netloc \in Netlocs : domain' = DomainOf(netloc)
       \/ domain' = <<>>
    /\ pc' = "gate"
    /\ UNCHANGED <<cands, raised, lmRaw, parsed, winner, result>>
    /\ UNCHANGED procVars
    /\ UNCHANGED searchVars

\* Line 206.  This is the last read of domain: the model forgets it here.
Gate ==
    /\ pc = "gate"
    /\ pc' = IF AdapterGate(domain) THEN "cnet_adapter" ELSE "jsonld"
    /\ domain' = <<>>
    /\ UNCHANGED <<cands, raised, lmRaw, parsed, winner, result>>
    /\ UNCHANGED procVars
    /\ UNCHANGED searchVars

\* Faulty variant: no try around the extractor, its exception leaves best_date.
Extract_NoTry(at, outputs, next) ==
    /\ pc = at
    /\ \/ /\ \E emitted \in outputs : cands' = cands \o emitted
          /\ raised' = FALSE
          /\ pc' = next
       \/ /\ cands' = cands
          /\ raised' = TRUE
          /\ pc' = "done"
    /\ UNCHANGED <<domain, lmRaw, parsed, winner, result>>
    /\ UNCHANGED procVars
    /\ UNCHANGED searchVars

\* One extractor under its try: its candidates are appended, or it raises and
\* the list is left as it was; either way the next extractor is called.
Extract(at, outputs, next) ==
    /\ pc = at
    /\ \/ /\ \E emitted \in outputs : cands' = cands \o emitted
          /\ raised' = FALSE
       \/ /\ cands' = cands
          /\ raised' = TRUE
    /\ pc' = next
    /\ UNCHANGED <<domain, lmRaw, parsed, winner, result>>
    /\ UNCHANGED procVars
    /\ UNCHANGED searchVars

\* Lines 207-212.
CnetAdapter == Extract("cnet_adapter", AdapterOutputs(MaxCands), "jsonld")
\* Lines 215-220, one turn of the loop each.
Jsonld == Extract("jsonld", JsonldOutputs(MaxCands - Len(cands)), "meta")
Meta == Extract("meta", MetaOutputs(MaxCands - Len(cands)), "time")
TimeTags == Extract("time", TimeOutputs(MaxCands - Len(cands)), "text")
Textish == Extract("text", TextOutputs(MaxCands - Len(cands)), "fallback")

\* Faulty variant: the header is read whatever the extractors found.
NeedsFallback_Always(cs) == TRUE

\* Line 223: the header is a fallback for an empty list.
NeedsFallback(cs) == cs = <<>>

\* Lines 222-225.
Fallback ==
    /\ pc = "fallback"
    /\ IF NeedsFallback(cands)
       THEN \E v \in RawDates :
               /\ lmRaw' = Some(v)
               /\ parsed' = SafeParseDate(v)
               /\ cands' = cands \o LastModifiedHeader(v)
       ELSE UNCHANGED <<lmRaw, parsed, cands>>
    /\ raised' = FALSE
    /\ pc' = "select"
    /\ UNCHANGED <<domain, winner, result>>
    /\ UNCHANGED procVars
    /\ UNCHANGED searchVars

\* Lines 227-241.
Select ==
    /\ pc = "select"
    /\ winner' = IF cands = <<>> THEN None ELSE Some(Winner(cands))
    /\ result' = Some(Resolve(cands))
    /\ pc' = "done"
    /\ UNCHANGED <<domain, cands, raised, lmRaw, parsed>>
    /\ UNCHANGED procVars
    /\ UNCHANGED searchVars

Init == BestDateEntry /\ ProcessIdle /\ SearchIdle

Next ==
    \/ Fetch \/ ParseDomain \/ Gate \/ CnetAdapter
    \/ Jsonld \/ Meta \/ TimeTags \/ Textish
    \/ Fallback \/ Select

Spec == Init /\ [][Next]_vars

\* ---------------------------------------------------------------- process

\* Line 303: dataforseo_search stops at three results.
MaxComps == 3

\* classify_site, lines 688-708, on the sites the search returns here: one
\* listed in ALL_RETAILERS and one in no list.
CompUrls == {"amazon.com", "rtings.com"}
ClassifySite(url) == IF url = "amazon.com" THEN "retailer" ELSE "editorial"

\* The pages process() resolves: no candidate, or one meta date.
Pages == {<<>>} \cup {<<Cand("meta", t, 75)>> : t \in Times}

\* Lines 752-753 and 756-757: the running maximum.
Newest(cur, dt) == IF cur = None \/ dt > cur[1] THEN Some(dt) ELSE cur

\* Lines 764-765: timedelta.days of the difference, or None.
DiffDays(newest, target) ==
    IF newest # None /\ target # None THEN Some(Days(newest[1] - target[1])) ELSE None

\* Faulty variant: a gap equal to the threshold counts as stale.
Exceeds_OrEqual(diff, threshold) == diff # None /\ diff[1] >= threshold

\* Lines 771 and 774: the test of a gap against days_threshold.
Exceeds(diff, threshold) == diff # None /\ diff[1] > threshold

\* Faulty variant: the gap to any competitor is tested before the editorial one.
Verdict_AnyFirst(diff_any, diff_editorial, threshold) ==
    IF Exceeds(diff_any, threshold)
    THEN [needs_update |-> TRUE, update_priority |-> "Low (non-editorial competitor)"]
    ELSE IF Exceeds(diff_editorial, threshold)
    THEN [needs_update |-> TRUE, update_priority |-> "High"]
    ELSE [needs_update |-> FALSE, update_priority |-> "None"]

\* Lines 770-779.
Verdict(diff_any, diff_editorial, threshold) ==
    IF Exceeds(diff_editorial, threshold)
    THEN [needs_update |-> TRUE, update_priority |-> "High"]
    ELSE IF Exceeds(diff_any, threshold)
    THEN [needs_update |-> TRUE, update_priority |-> "Low (non-editorial competitor)"]
    ELSE [needs_update |-> FALSE, update_priority |-> "None"]

\* process() at the top of the loop body for one row.
ProcessEntry ==
    /\ ppc = "target"
    /\ days_threshold \in 1..MaxThreshold
    /\ c_dt = None
    /\ comps = <<>>
    /\ dates = <<>>
    /\ newest_any = None
    /\ newest_editorial = None
    /\ row = None

\* Line 724: the target's date, (None, 0.0) for an empty cnet_url.
Target ==
    /\ ppc = "target"
    /\ \/ \E page \in Pages : c_dt' = Resolve(page).dt
       \/ c_dt' = None
    /\ ppc' = "search"
    /\ UNCHANGED <<days_threshold, comps, dates, newest_any, newest_editorial, row>>
    /\ UNCHANGED bdVars
    /\ UNCHANGED searchVars

\* Lines 727-731: the search results, at most three.
Search ==
    /\ ppc = "search"
    /\ \E found \in SeqsUpTo(CompUrls, MaxComps) : comps' = found
    /\ ppc' = "competitors"
    /\ UNCHANGED <<days_threshold, c_dt, dates, newest_any, newest_editorial, row>>
    /\ UNCHANGED bdVars
    /\ UNCHANGED searchVars

\* Lines 740-758: one turn of the loop over the competitors.
Competitor ==
    /\ ppc = "competitors"
    /\ Len(dates) < Len(comps)
    /\ \E page \in Pages :
        LET dt == Resolve(page).dt
            site_type == ClassifySite(comps[Len(dates) + 1])
        IN /\ dates' = Append(dates, dt)
           /\ newest_any' = IF dt # None THEN Newest(newest_any, dt[1]) ELSE newest_any
           /\ newest_editorial' =
                IF dt # None /\ site_type = "editorial"
                THEN Newest(newest_editorial, dt[1])
                ELSE newest_editorial
    /\ UNCHANGED <<ppc, days_threshold, c_dt, comps, row>>
    /\ UNCHANGED bdVars
    /\ UNCHANGED searchVars

\* Lines 760-781: the differences and the verdict of the row.
Decide ==
    /\ ppc = "competitors"
    /\ Len(dates) = Len(comps)
    /\ LET diff_any == DiffDays(newest_any, c_dt)
           diff_editorial == DiffDays(newest_editorial, c_dt)
           v == Verdict(diff_any, diff_editorial, days_threshold)
       IN row' = Some([date_diff_days |-> diff_any,
                       editorial_diff_days |-> diff_editorial,
                       needs_update |-> v.needs_update,
                       update_priority |-> v.update_priority])
    /\ ppc' = "done"
    /\ UNCHANGED <<days_threshold, c_dt, comps, dates, newest_any, newest_editorial>>
    /\ UNCHANGED bdVars
    /\ UNCHANGED searchVars

InitProcess == BestDateEntry /\ ProcessEntry /\ SearchIdle

NextProcess == Target \/ Search \/ Competitor \/ Decide

SpecProcess == InitProcess /\ [][NextProcess]_vars

\* ------------------------------------------------------- dataforseo_search

\* Line 244: the default of exclude.
RedditCom == <<"r", "e", "d", "d", "i", "t", ".", "c", "o", "m">>
Exclude == {CnetCom, RedditCom}

Scheme == <<"h", "t", "t", "p", "s", ":", "/", "/">>
Slash == <<"/">>

\* The URLs of the items, as scheme, netloc and path.
Url(netloc, path) == [netloc |-> netloc, path |-> path]
UrlString(u) == Scheme \o u.netloc \o u.path
SerpUrls ==
    { Url(WwwDot \o CnetCom, Slash),
      Url(<<"o", "l", "d", ".">> \o RedditCom, Slash),
      Url(<<"x", ".", "c", "o", "m">>, Slash),
      Url(<<"y", ".", "c", "o", "m">>, Slash),
      Url(<<"x", ".", "c", "o", "m">>, <<"/", "v", "s", "-">> \o CnetCom),
      Url(<<"n", "o", "t">> \o CnetCom, Slash) }

\* The items of a response: organic ones with a URL or with "url": null, and
\* one of another type.
SerpItems ==
    {[type |-> "organic", url |-> Some(UrlString(u))] : u \in SerpUrls}
        \cup {[type |-> "organic", url |-> None],
              [type |-> "paid", url |-> Some(UrlString(Url(<<"x", ".", "c", "o", "m">>, Slash)))]}

\* Python's "sub in s" on strings.
Contains(s, sub) ==
    \E i \in 0..(Len(s) - Len(sub)) : SubSeq(s, i + 1, i + Len(sub)) = sub

\* Line 298: any(dom in url.lower() for dom in exclude).
Skipped(url) == \E dom \in Exclude : Contains(Lower(url), dom)

\* A call of dataforseo_search.
SearchEntry ==
    /\ spc = "entry"
    /\ items = <<>>
    /\ pos = 0
    /\ out = <<>>
    /\ caught = FALSE
    /\ hits = None

\* Lines 249-250: without credentials the function raises before its try.
Credentials ==
    /\ spc = "entry"
    /\ \/ spc' = "post"
       \/ spc' = "raised"
    /\ UNCHANGED <<items, pos, out, caught, hits>>
    /\ UNCHANGED bdVars
    /\ UNCHANGED procVars

\* Lines 273-291: the request.  It raises (connection, HTTP status, body that
\* is not JSON) and the except clause returns [], or it yields the items of
\* the first result of the first task, none when either is missing.
Post ==
    /\ spc = "post"
    /\ \/ /\ caught' = TRUE
          /\ hits' = Some(<<>>)
          /\ spc' = "returned"
          /\ UNCHANGED items
       \/ /\ \E its \in SeqsUpTo(SerpItems, MaxItems) : items' = its
          /\ spc' = "scan"
          /\ UNCHANGED <<caught, hits>>
    /\ UNCHANGED <<pos, out>>
    /\ UNCHANGED bdVars
    /\ UNCHANGED procVars

\* Lines 293-304: one turn of the loop over the items.  An item that is not
\* organic is passed over; url.lower() raises on a null url and the except
\* clause returns []; a URL that holds an excluded name is skipped; any other
\* is appended, and the loop stops at three.
Scan ==
    /\ spc = "scan"
    /\ pos < Len(items)
    /\ Len(out) < MaxComps
    /\ LET item == items[pos + 1] IN
       \/ /\ item.type # "organic"
          /\ pos' = pos + 1
          /\ UNCHANGED <<spc, out, caught, hits>>
       \/ /\ item.type = "organic"
          /\ item.url = None
          /\ caught' = TRUE
          /\ hits' = Some(<<>>)
          /\ spc' = "returned"
          /\ UNCHANGED <<pos, out>>
       \/ /\ item.type = "organic"
          /\ item.url # None
          /\ Skipped(item.url[1])
          /\ pos' = pos + 1
          /\ UNCHANGED <<spc, out, caught, hits>>
       \/ /\ item.type = "organic"
          /\ item.url # None
          /\ ~Skipped(item.url[1])
          /\ out' = Append(out, item.url[1])
          /\ pos' = pos + 1
          /\ UNCHANGED <<spc, caught, hits>>
    /\ UNCHANGED items
    /\ UNCHANGED bdVars
    /\ UNCHANGED procVars

\* Lines 303-306: the loop is over or was left at three results.
Return ==
    /\ spc = "scan"
    /\ pos = Len(items) \/ Len(out) >= MaxComps
    /\ hits' = Some(out)
    /\ spc' = "returned"
    /\ UNCHANGED <<items, pos, out, caught>>
    /\ UNCHANGED bdVars
    /\ UNCHANGED procVars

InitSearch == BestDateEntry /\ ProcessIdle /\ SearchEntry

NextSearch == Credentials \/ Post \/ Scan \/ Return

SpecSearch == InitSearch /\ [][NextSearch]_vars

\* ---------------------------------------------------------------- claims

HeaderLabel == "header:last-modified"
HasHeaderCand == \E i \in DOMAIN cands : cands[i].label = HeaderLabel
Unparseable == {"none", "empty", "raises", "nothing"}
Returned == pc = "done" /\ result # None

\* C1: the returned confidence lies in [0, 1] and is 0.0 exactly when the
\* returned timestamp is None, on every path of best_date.
C1_ConfidenceRange ==
    result # None =>
        /\ result[1].conf \in 0..100
        /\ result[1].conf = 0 <=> result[1].dt = None

\* A boosted 0.95 winner, returned as 1.0.
C1_Witness ==
    /\ Returned
    /\ winner # None
    /\ winner[1].conf = 95
    /\ result[1].conf = 100

\* C2: no extractor candidate and no parseable Last-Modified header: best_date
\* returns (None, 0.0).
C2_NoEvidence ==
    (pc = "done" /\ lmRaw # None /\ lmRaw[1].kind \in Unparseable)
        => result = Some(Resolution(None, 0))

\* The header was there and dateutil raised on it.
C2_Witness ==
    /\ pc = "done"
    /\ lmRaw # None
    /\ lmRaw[1].kind = "raises"
    /\ cands = <<>>
    /\ result = Some(Resolution(None, 0))

\* C3: the header candidate is in the list only when the extractors left the
\* list empty; with an extractor candidate the header is not read, is not in
\* the list and does not win.
C3_HeaderOnlyWhenEmpty ==
    /\ HasHeaderCand => Len(cands) = 1
    /\ lmRaw # None => \A i \in DOMAIN cands : cands[i].label = HeaderLabel
    /\ (winner # None /\ winner[1].label = HeaderLabel) => Len(cands) = 1

\* The fallback step has passed over a list the extractors filled.
C3_Witness ==
    /\ pc = "done"
    /\ Len(cands) >= 1
    /\ ~HasHeaderCand
    /\ lmRaw = None

\* C4: the returned timestamp is not earlier than that of any candidate of
\* maximal confidence.
C4_LaterAmongMaximal ==
    (Returned /\ cands # <<>>) =>
        \A i \in DOMAIN cands :
            (\A j \in DOMAIN cands : cands[j].conf <= cands[i].conf)
                => result[1].dt[1] >= cands[i].dt

\* Two candidates of maximal confidence, the earlier one first in the list.
C4_Witness ==
    /\ Returned
    /\ Len(cands) = 2
    /\ cands[1].conf = cands[2].conf
    /\ cands[1].dt < cands[2].dt
    /\ result[1].dt = Some(cands[2].dt)

\* The candidates within two days of the winner, in time, at confidence >= 0.6.
Corroborating(w) ==
    {i \in DOMAIN cands :
        /\ Abs(cands[i].dt - w.dt) <= AgreeDays * TicksPerDay
        /\ cands[i].conf >= AgreeMinConf}

\* C5: the boost never raises the confidence above 1.0, and with fewer than
\* two candidates of confidence >= 0.6 within 2 days of the winner the
\* returned confidence is the winner's own.
C5_BoostNeedsTwoWithinTwoDays ==
    (Returned /\ winner # None) =>
        /\ result[1].conf <= 100
        /\ Cardinality(Corroborating(winner[1])) < 2 => result[1].conf = winner[1].conf

\* C7: with a parseable Last-Modified header as the only evidence, best_date
\* returns the header's instant with confidence 0.3, unboosted.
C7_HeaderOnly ==
    (pc = "done" /\ lmRaw # None /\ lmRaw[1].kind \notin Unparseable) =>
        result = Some(Resolution(Some(lmRaw[1].wall - lmRaw[1].off), 30))

\* A header with a UTC offset was the only evidence.
C7_Witness ==
    /\ pc = "done"
    /\ lmRaw # None
    /\ lmRaw[1].kind = "aware"
    /\ lmRaw[1].off = 1
    /\ cands = <<Cand(HeaderLabel, lmRaw[1].wall - 1, 30)>>
    /\ result[1].conf = 30

\* C9: _safe_parse_date never raises, returns None for None, empty and
\* unparseable input, and returns only aware datetimes in UTC, a naive parse
\* result being read as UTC.
C9_SafeParseTotal ==
    lmRaw # None =>
        /\ ~parsed.raised
        /\ lmRaw[1].kind \in Unparseable => parsed.value = None
        /\ parsed.value # None => parsed.value[1].tz = Some(0)
        /\ lmRaw[1].kind = "naive" => parsed.value = Some(DateTime(lmRaw[1].wall, Some(0)))

\* A naive date string was parsed.
C9_Witness ==
    /\ lmRaw # None
    /\ lmRaw[1].kind = "naive"
    /\ parsed.value # None

\* The domain is cnet.com or one of its subdomains.
IsCnetOrSubdomain(d) == d = CnetCom \/ EndsWith(d, <<".">> \o CnetCom)

\* C10: the adapter is entered only for cnet.com and its subdomains.
C10_AdapterOnlyForCnet ==
    [][(pc = "gate" /\ pc' = "cnet_adapter") => IsCnetOrSubdomain(domain)]_vars

\* The dates of the competitors that have one.
DatedCompetitors == {i \in DOMAIN dates : dates[i] # None}

\* C8: needs_update is TRUE exactly when the target and some competitor are
\* dated and the newest competitor date is more than days_threshold whole days
\* (rounded down) after the target's; date_diff_days is that number of days.
C8_NeedsUpdate ==
    (ppc = "done") =>
        LET stale ==
              /\ c_dt # None
              /\ \E i \in DatedCompetitors :
                    dates[i][1] - c_dt[1] >= (days_threshold + 1) * TicksPerDay
        IN /\ row[1].needs_update <=> stale
           /\ (c_dt = None \/ DatedCompetitors = {}) => row[1].date_diff_days = None
           /\ (c_dt # None /\ DatedCompetitors # {}) =>
                 \E i \in DatedCompetitors :
                    /\ \A j \in DatedCompetitors : dates[j][1] <= dates[i][1]
                    /\ row[1].date_diff_days[1] * TicksPerDay <= dates[i][1] - c_dt[1]
                    /\ dates[i][1] - c_dt[1] < (row[1].date_diff_days[1] + 1) * TicksPerDay

\* A gap equal to the threshold, from a retailer only: no update.
C8_Witness ==
    /\ ppc = "done"
    /\ row[1].date_diff_days = Some(days_threshold)
    /\ ~row[1].needs_update
    /\ Len(dates) = 2
    /\ dates[1] = None

\* The statement after the try of each extractor.
AfterExtractor ==
    [cnet_adapter |-> "jsonld", jsonld |-> "meta", meta |-> "time",
     time |-> "text", text |-> "fallback"]

\* C11: an extractor that raises adds nothing, the candidates of the others
\* stay as they are, the next extractor is called all the same, and best_date
\* ends by returning a pair.
C11_ExtractorFailureIsLocal ==
    [][/\ pc \in DOMAIN AfterExtractor =>
            /\ pc' = AfterExtractor[pc]
            /\ Len(cands') >= Len(cands)
            /\ SubSeq(cands', 1, Len(cands)) = cands
            /\ raised' => cands' = cands
       /\ pc' = "done" => result' # None]_vars

\* _extract_jsonld has just raised after the adapter had contributed, and
\* _extract_meta is about to be called.
C11_Witness ==
    /\ pc = "meta"
    /\ raised
    /\ cands # <<>>

Selected == pc = "done" /\ winner # None

\* C12 as stated: the winner's own confidence is the maximum over all
\* candidates, so a newer candidate of lower confidence never wins.
C12_WinnerHasMaxConf ==
    Selected => winner[1].conf = MaxConf(cands)

\* C12: the winner is one of the candidates and its own confidence is at most
\* 0.05 below the maximum; a candidate further below the maximum never wins,
\* however recent, and a winner below the maximum is at least as recent as
\* every candidate of maximum confidence.
C12_WinnerWithinBand ==
    Selected =>
        /\ \E i \in DOMAIN cands : cands[i] = winner[1]
        /\ winner[1].conf >= MaxConf(cands) - BandSlack
        /\ winner[1].conf < MaxConf(cands) =>
               \A i \in DOMAIN cands :
                   cands[i].conf = MaxConf(cands) => cands[i].dt <= winner[1].dt

\* A newer candidate more than 0.05 below the maximum lost to an older one.
C12_Witness ==
    /\ Selected
    /\ \E i \in DOMAIN cands :
           /\ cands[i].conf < MaxConf(cands) - BandSlack
           /\ cands[i].dt > winner[1].dt

\* C13: the returned timestamp is the winner's, and the returned confidence is
\* min(1.0, winner + 0.1) exactly when the winner is below 1.0 and at least
\* two candidates of confidence >= 0.6 lie within 2 days of it; otherwise it
\* is the winner's own confidence.
C13_BoostExactlyOnAgreement ==
    Selected =>
        /\ result[1].dt = Some(winner[1].dt)
        /\ result[1].conf =
               IF winner[1].conf < ConfCap
                  /\ Cardinality(Corroborating(winner[1])) >= 2
               THEN Min(ConfCap, winner[1].conf + BoostStep)
               ELSE winner[1].conf

\* C14: a candidate passes the window test of the tally exactly when its
\* timestamp is at most 2 days (48 hours) from the winner's, earlier or later.
C14_WindowIsTwoDaysBothWays ==
    Selected =>
        \A i \in DOMAIN cands :
            InWindow(cands[i], winner[1].dt)
                <=> Abs(cands[i].dt - winner[1].dt) <= AgreeDays * TicksPerDay

\* The candidate lists that hold the same candidates as cs in another order.
Reorderings(cs) ==
    {[i \in DOMAIN cs |-> cs[p[i]]] : p \in Permutations(DOMAIN cs)}

\* C15: what best_date returns is what selection and boost yield on every
\* reordering of the candidates it collected.
C15_OrderIndependent ==
    Selected => \A cs \in Reorderings(cands) : Resolve(cs) = result[1]

DatedEditorial == {i \in DatedCompetitors : ClassifySite(comps[i]) = "editorial"}

\* Some competitor of the set is more than days_threshold whole days newer
\* than the dated target.
Fresher(competitors) ==
    /\ c_dt # None
    /\ \E i \in competitors :
           dates[i][1] - c_dt[1] >= (days_threshold + 1) * TicksPerDay

\* C16: update_priority is "High" exactly when a dated editorial competitor is
\* more than days_threshold whole days newer than the target, the Low label
\* exactly when none is but a dated competitor of some type is, and "None"
\* otherwise; needs_update is TRUE exactly for High and Low.
C16_TieredVerdict ==
    (ppc = "done") =>
        /\ row[1].update_priority = "High" <=> Fresher(DatedEditorial)
        /\ row[1].update_priority = "Low (non-editorial competitor)"
               <=> (~Fresher(DatedEditorial) /\ Fresher(DatedCompetitors))
        /\ row[1].update_priority = "None" <=> ~Fresher(DatedCompetitors)
        /\ row[1].needs_update <=> row[1].update_priority # "None"

\* A retailer beyond the threshold and a dated editorial site within it: Low.
C16_Witness ==
    /\ ppc = "done"
    /\ row[1].update_priority = "Low (non-editorial competitor)"
    /\ row[1].needs_update
    /\ DatedEditorial # {}
    /\ row[1].editorial_diff_days # None
    /\ row[1].editorial_diff_days[1] <= days_threshold

AdapterLabels == {sel.label : sel \in AdapterSelectors} \cup {"cnet:text"}
AdapterCands == {i \in DOMAIN cands : cands[i].label \in AdapterLabels}
SelectorOf(c) == CHOOSE sel \in AdapterSelectors : sel.label = c.label

\* C17 as stated: every adapter candidate has confidence 0.95, 0.85 or 0.80,
\* 0.95 whenever its selector signals 'updated' and never 0.80 when its
\* selector signals 'published'.
C17_AdapterConfidences ==
    \A i \in AdapterCands :
        /\ cands[i].conf \in {95, 85, 80}
        /\ cands[i].label # "cnet:text" =>
               /\ SelectorOf(cands[i]).updated => cands[i].conf = 95
               /\ SelectorOf(cands[i]).published => cands[i].conf \in {95, 85}

\* C17: a selector match has confidence 0.95, 0.85 or 0.80, 0.95 whenever its
\* selector signals 'updated' and never 0.80 when its selector signals
\* 'published'; a date read from a text block has confidence 0.85 or 0.75.
C17_AdapterConfidencesByPass ==
    \A i \in AdapterCands :
        IF cands[i].label = "cnet:text"
        THEN cands[i].conf \in {85, 75}
        ELSE /\ cands[i].conf \in {95, 85, 80}
             /\ SelectorOf(cands[i]).updated => cands[i].conf = 95
             /\ SelectorOf(cands[i]).published => cands[i].conf \in {95, 85}

\* The adapter returned a match of the 'published' selector whose parent text
\* says 'updated', and a text block without 'update'.
C17_Witness ==
    /\ pc = "jsonld"
    /\ Len(cands) = 2
    /\ SelectorOf(cands[1]).published
    /\ cands[1].conf = 95
    /\ cands[2].label = "cnet:text"
    /\ cands[2].conf = 75

\* The extractor a candidate came from.
Family(c) == IF c.label \in AdapterLabels THEN "cnet" ELSE c.label

\* C18: when the returned confidence is the winner's plus the boost, the
\* candidates that line 237 counted come from at least two extractors.
C18_BoostNeedsTwoFamilies ==
    (Selected /\ result[1].conf # winner[1].conf) =>
        Cardinality({Family(cands[i]) : i \in
            {j \in DOMAIN cands :
                /\ InWindow(cands[j], winner[1].dt)
                /\ cands[j].conf >= AgreeMinConf}}) >= 2

\* The netloc of a URL string: what lies between the scheme and the next "/".
NetlocOf(url) ==
    LET rest == SubSeq(url, Len(Scheme) + 1, Len(url))
        cut == CHOOSE i \in 1..Len(rest) :
                  rest[i] = "/" /\ \A j \in 1..(i - 1) : rest[j] # "/"
    IN SubSeq(rest, 1, cut - 1)

\* The URL is on an excluded domain: its host is the domain or a subdomain.
OnExcludedDomain(url) ==
    \E dom \in Exclude :
        LET host == Lower(NetlocOf(url))
        IN host = dom \/ EndsWith(host, <<".">> \o dom)

FirstUpTo(s, n) == SubSeq(s, 1, IF Len(s) < n THEN Len(s) ELSE n)

\* C19: without a failure, dataforseo_search returns the URLs of the first
\* three (or fewer) organic items, in the order of the response, that are not
\* on cnet.com or reddit.com; after a failure it returns the empty list.
C19_TopOrganicNotExcluded ==
    (spc = "returned") =>
        hits[1] =
            IF caught THEN <<>>
            ELSE LET kept == SelectSeq(items, LAMBDA it :
                                /\ it.type = "organic"
                                /\ it.url # None
                                /\ ~OnExcludedDomain(it.url[1]))
                 IN [i \in 1..Len(FirstUpTo(kept, MaxComps)) |-> kept[i].url[1]]

====
